---------------------------- MODULE Spec2Model ----------------------------
(***************************************************************************)
(* gen.py: a command-line wrapper that drives a host 3D application (bpy)  *)
(* to turn a text string into a mesh and export it.                        *)
(*                                                                         *)
(* The state is the host scene (objects, selection, active object, the     *)
(* text object's data), the file system effects (directories created,      *)
(* files exported), the sequence of host calls made so far, and the        *)
(* position and locals of the running function.  Three entry points are    *)
(* modelled: main() (Spec), a direct call of export_mesh (SpecExport) and  *)
(* a direct call of check_font_support (SpecFont).                         *)
(*                                                                         *)
(* Strings are sequences: a text is a sequence of characters, a path is a  *)
(* sequence of tokens, each token being "/", "." or a run of characters    *)
(* holding neither, so os.path.splitext / dirname / join are computed on   *)
(* tokens exactly as posixpath computes them on characters.                *)
(***************************************************************************)
EXTENDS Integers, Sequences, FiniteSets, TLC

VARIABLES
    entry,              \* the function that was called: "main", "export_mesh", "check_font_support"
    pc,                 \* position of the running code
    ip,                 \* index of the next statement inside a straight-line block
    text,               \* args.text / the text parameter
    font_exists,        \* os.path.exists(font_path)
    cmap,               \* check_font_support: local cmap (font.getBestCmap())
    cfs_exc,            \* check_font_support: exception caught by its except clause
    cfs_ret,            \* check_font_support: the returned (bool, list)
    is_supported,       \* main: local is_supported (assigned at line 232)
    unsupported_chars,  \* main: local unsupported_chars
    warned,             \* main: the warning block of lines 234-240 was printed
    scene,              \* host scene: objects, selection, active object, text object data
    hostLog,            \* host (bpy) calls invoked so far, in order
    dirs,               \* directories created by os.makedirs
    exported,           \* files written by an export operator: <<operator, filepath>>
    output_path,        \* export_mesh: parameter / local output_path
    file_ext,           \* export_mesh: local file_ext
    ret,                \* export_mesh: return value "none", "True", "False"
    exc                 \* exception that left the entry function, "none" if none

vars == <<entry, pc, ip, text, font_exists, cmap, cfs_exc, cfs_ret, is_supported,
          unsupported_chars, warned, scene, hostLog, dirs, exported, output_path,
          file_ext, ret, exc>>

-----------------------------------------------------------------------------
(* Bounds *)

MaxLen == 2          \* longest text
MaxPathLen == 4      \* longest output path handed to export_mesh directly (tokens)
MaxOutLen == 3       \* longest --output argument of main (tokens)

Chars == {"a", "b", " "}
PathTokens == {"/", ".", "obj", "OBJ", "blend", "txt"}

SeqsUpTo(S, n) == UNION {[1..k -> S] : k \in 0..n}

Texts == SeqsUpTo(Chars, MaxLen)

\* Python's None for an optional path: a value no enumerated path equals
None == <<"None">>

-----------------------------------------------------------------------------
(* Pure helpers *)

isspace(c) == c = " "

\* str.rfind on tokens, 1-based; 0 when absent (Python: -1)
rfind(p, tok) ==
    LET hits == {i \in 1..Len(p) : p[i] = tok}
    IN  IF hits = {} THEN 0 ELSE CHOOSE i \in hits : \A j \in hits : j <= i

\* genericpath._splitext: the extension starts at the last dot of the last
\* component, unless only dots precede it in that component
splitext(p) ==
    LET sepIndex == rfind(p, "/")
        dotIndex == rfind(p, ".")
    IN  IF /\ dotIndex > sepIndex
           /\ \E k \in (sepIndex + 1)..(dotIndex - 1) : p[k] # "."
        THEN <<SubSeq(p, 1, dotIndex - 1), SubSeq(p, dotIndex, Len(p))>>
        ELSE <<p, <<>> >>

\* str.lower on one token
lowerTok(t) == IF t = "OBJ" THEN "obj" ELSE t

lower(s) == [i \in 1..Len(s) |-> lowerTok(s[i])]

RECURSIVE rstripSep(_)
rstripSep(p) ==
    IF p # <<>> /\ p[Len(p)] = "/" THEN rstripSep(SubSeq(p, 1, Len(p) - 1)) ELSE p

\* posixpath.dirname
dirname(p) ==
    LET head == SubSeq(p, 1, rfind(p, "/"))
    IN  IF head # <<>> /\ (\E i \in 1..Len(head) : head[i] # "/")
        THEN rstripSep(head)
        ELSE head

\* posixpath.join of two paths
join(a, b) ==
    IF b # <<>> /\ b[1] = "/" THEN b
    ELSE IF a = <<>> \/ a[Len(a)] = "/" THEN a \o b
    ELSE a \o <<"/">> \o b

\* os.path.dirname(os.path.abspath(__file__))
script_dir == <<"/", "scripts">>

\* get_default_output_path: output_dir and the returned file path
output_dir == join(script_dir, <<"output">>)

default_filename(t, ext) == t \o <<"_", "timestamp">> \o ext

get_default_output_path(t) == join(output_dir, default_filename(t, <<".", "obj">>))

\* names bound at module level of gen.py (a free name of a function body
\* resolves here, or raises NameError)
ModuleGlobals == {"bpy", "os", "argparse", "sys", "datetime", "TTFont", "unicodedata",
                  "create_text_mesh", "get_default_output_path", "ensure_addons_enabled",
                  "export_mesh", "parse_args", "check_font_support", "main"}


-----------------------------------------------------------------------------
(* The host scene *)

Objs == {"Cube", "Text"}

\* the scene gen.py starts from: the host's start-up objects, nothing of its own
EmptyText == [kind |-> "none", body |-> <<>>, props |-> {},
              origin_centred |-> FALSE, location |-> "origin"]

\* create_text_mesh without the conversion to a mesh (line 47 left out)
CreateOpsNoConvert ==
    <<"object.select_all(SELECT)", "object.delete", "object.text_add",
      "data.body", "fonts.load", "data.font", "data.extrude",
      "data.bevel_depth", "data.bevel_resolution", "objects.active",
      "object.shade_smooth", "object.modifier_add">>

\* host calls of create_text_mesh, in statement order
CreateOps == <<"object.select_all(SELECT)", "object.delete", "object.text_add",
               "data.body", "fonts.load", "data.font", "data.extrude",
               "data.bevel_depth", "data.bevel_resolution", "objects.active",
               "object.convert", "object.shade_smooth", "object.modifier_add">>

\* main: "Center the object"
CentreOps == <<"object.origin_set", "location">>

\* export_mesh: "Select the object to export"
SelectOps == <<"object.select_all(DESELECT)", "select_set", "objects.active">>

\* calls that run a host operator or read a file and so may raise; plain
\* attribute assignments do not
Fallible == {"object.select_all(SELECT)", "object.delete", "object.text_add",
             "fonts.load", "object.convert", "object.shade_smooth",
             "object.modifier_add", "object.origin_set",
             "object.select_all(DESELECT)"}

\* effect of one successful host call on the scene
Exec(op, sc) ==
    CASE op = "object.select_all(SELECT)" -> [sc EXCEPT !.selected = sc.objects]
      [] op = "object.delete" ->
            [sc EXCEPT !.objects = sc.objects \ sc.selected,
                       !.selected = {},
                       !.active = IF sc.active \in sc.selected THEN "None" ELSE sc.active,
                       !.text = IF "Text" \in sc.selected THEN EmptyText ELSE sc.text]
      [] op = "object.text_add" ->
            [sc EXCEPT !.objects = sc.objects \cup {"Text"},
                       !.selected = {"Text"},
                       !.active = "Text",
                       !.text = [EmptyText EXCEPT !.kind = "FONT",
                                                  !.body = <<"T", "e", "x", "t">>]]
      [] op = "data.body" -> [sc EXCEPT !.text.body = text]
      [] op = "fonts.load" -> sc
      [] op = "data.font" -> [sc EXCEPT !.text.props = @ \cup {"font"}]
      [] op = "data.extrude" -> [sc EXCEPT !.text.props = @ \cup {"extrude"}]
      [] op = "data.bevel_depth" -> [sc EXCEPT !.text.props = @ \cup {"bevel_depth"}]
      [] op = "data.bevel_resolution" ->
            [sc EXCEPT !.text.props = @ \cup {"bevel_resolution"}]
      [] op = "objects.active" -> [sc EXCEPT !.active = "Text"]
      [] op = "object.convert" ->
            IF "Text" \in sc.selected /\ sc.text.kind = "FONT"
            THEN [sc EXCEPT !.text.kind = "MESH"] ELSE sc
      [] op = "object.shade_smooth" ->
            IF "Text" \in sc.selected
            THEN [sc EXCEPT !.text.props = @ \cup {"smooth"}] ELSE sc
      [] op = "object.modifier_add" -> [sc EXCEPT !.text.props = @ \cup {"EDGE_SPLIT"}]
      [] op = "object.origin_set" ->
            IF "Text" \in sc.selected
            THEN [sc EXCEPT !.text.origin_centred = TRUE,
                            !.text.location = "centre_of_mass"]
            ELSE sc
      [] op = "location" -> [sc EXCEPT !.text.location = "origin"]
      [] op = "object.select_all(DESELECT)" -> [sc EXCEPT !.selected = {}]
      [] op = "select_set" -> [sc EXCEPT !.selected = @ \cup {"Text"}]

\* one statement of a straight-line block of host calls; an operator that
\* fails raises RuntimeError, which no caller in gen.py catches
RunBlock(block, ops, next) ==
    /\ pc = block
    /\ \E ok \in (IF ops[ip] \in Fallible THEN BOOLEAN ELSE {TRUE}) :
          /\ hostLog' = Append(hostLog, ops[ip])
          /\ IF ok
             THEN /\ scene' = Exec(ops[ip], scene)
                  /\ pc' = IF ip = Len(ops) THEN next ELSE block
                  /\ ip' = IF ip = Len(ops) THEN 1 ELSE ip + 1
                  /\ exc' = exc
             ELSE /\ scene' = scene
                  /\ pc' = "raised"
                  /\ ip' = ip
                  /\ exc' = "RuntimeError"

-----------------------------------------------------------------------------
(* check_font_support *)

\* what TTFont(font_path).getBestCmap() can give: a character map, or an
\* exception (missing or unreadable file, no Unicode cmap)
FontReads == [readable : {TRUE}, cmap : SUBSET Chars]
                 \cup {[readable |-> FALSE, cmap |-> {}]}

\* whether the runtime's unicodedata module has a script() function (line
\* 201); the standard library's has none, and the call raises AttributeError
unicodedata_has_script == BOOLEAN

\* the for loop of lines 196-208 from position i with the list built so far;
\* "raise" when the body raises
RECURSIVE scan(_, _, _, _, _)
scan(t, cm, has_script, i, acc) ==
    IF i > Len(t) THEN [raised |-> FALSE, list |-> acc]
    ELSE IF t[i] \notin cm /\ ~isspace(t[i])
         THEN IF has_script
              THEN scan(t, cm, has_script, i + 1, Append(acc, t[i]))
              ELSE [raised |-> TRUE, list |-> acc]
         ELSE scan(t, cm, has_script, i + 1, acc)

cfs_load ==
    /\ pc = "cfs_load"
    /\ \E f \in {g \in FontReads : g.readable => font_exists} :
          IF f.readable
          THEN /\ cmap' = f.cmap
               /\ pc' = "cfs_scan"
               /\ UNCHANGED <<cfs_exc, cfs_ret>>
          ELSE /\ cfs_exc' = "TTLibError"
               /\ cfs_ret' = <<TRUE, <<>> >>
               /\ pc' = "cfs_return"
               /\ cmap' = cmap
    /\ UNCHANGED <<entry, ip, text, font_exists, is_supported, unsupported_chars,
                   warned, scene, hostLog, dirs, exported, output_path, file_ext,
                   ret, exc>>

cfs_scan ==
    /\ pc = "cfs_scan"
    /\ \E has_script \in unicodedata_has_script :
          LET r == scan(text, cmap, has_script, 1, <<>>)
          IN  IF r.raised
              THEN /\ cfs_exc' = "AttributeError"
                   /\ cfs_ret' = <<TRUE, <<>> >>
              ELSE /\ cfs_exc' = cfs_exc
                   /\ cfs_ret' = <<Len(r.list) = 0, r.list>>
    /\ pc' = "cfs_return"
    /\ UNCHANGED <<entry, ip, text, font_exists, cmap, is_supported,
                   unsupported_chars, warned, scene, hostLog, dirs, exported,
                   output_path, file_ext, ret, exc>>

\* a font check that stops main instead of warning
AfterFontCheckStops(supported) == IF supported THEN "create_text_mesh" ELSE "done"

\* main goes on to create the mesh whatever the font check returned
AfterFontCheck(supported) == "create_text_mesh"

\* the return of check_font_support; in main, the assignment of line 232 and
\* the warning block of lines 233-240
cfs_return ==
    /\ pc = "cfs_return"
    /\ cmap' = {}
    /\ IF entry = "main"
       THEN /\ is_supported' = cfs_ret[1]
            /\ unsupported_chars' = cfs_ret[2]
            /\ warned' = ~cfs_ret[1]
            /\ pc' = AfterFontCheck(cfs_ret[1])
       ELSE /\ pc' = "done"
            /\ UNCHANGED <<is_supported, unsupported_chars, warned>>
    /\ UNCHANGED <<entry, ip, text, font_exists, cfs_exc, cfs_ret, scene, hostLog,
                   dirs, exported, output_path, file_ext, ret, exc>>

-----------------------------------------------------------------------------
(* main *)

\* the existence test of line 227 left out
AfterFontExistsIgnored(exists) == "cfs_load"

\* line 227: with the font file missing main prints the error and returns
AfterFontExists(exists) == IF exists THEN "cfs_load" ELSE "done"

\* lines 218-229: parse_args, build font_path, test that the file exists
main_font_exists ==
    /\ pc = "main"
    /\ pc' = AfterFontExists(font_exists)
    /\ UNCHANGED <<entry, ip, text, font_exists, cmap, cfs_exc, cfs_ret, is_supported,
                   unsupported_chars, warned, scene, hostLog, dirs, exported,
                   output_path, file_ext, ret, exc>>

\* lines 24-53
create_text_mesh ==
    /\ RunBlock("create_text_mesh", CreateOps, "main_centre")
    /\ UNCHANGED <<entry, text, font_exists, cmap, cfs_exc, cfs_ret, is_supported,
                   unsupported_chars, warned, dirs, exported, output_path, file_ext,
                   ret>>

\* lines 252-253
main_centre ==
    /\ RunBlock("main_centre", CentreOps, "main_output")
    /\ UNCHANGED <<entry, text, font_exists, cmap, cfs_exc, cfs_ret, is_supported,
                   unsupported_chars, warned, dirs, exported, output_path, file_ext,
                   ret>>

\* values of args.output: absent (None) or a string of at most MaxOutLen tokens
OutputArgs == {None} \cup SeqsUpTo(PathTokens, MaxOutLen)

\* lines 256-259; args.output is first read here.  get_default_output_path
\* creates output_dir (line 71), which can fail
main_output ==
    /\ pc = "main_output"
    /\ \E out \in OutputArgs :
          IF out # None /\ out # <<>>
          THEN /\ output_path' = join(script_dir, out)
               /\ pc' = "export_mesh"
               /\ UNCHANGED <<dirs, exc>>
          ELSE \E ok \in BOOLEAN :
                  IF ok
                  THEN /\ dirs' = dirs \cup {output_dir}
                       /\ output_path' = get_default_output_path(text)
                       /\ pc' = "export_mesh"
                       /\ exc' = exc
                  ELSE /\ pc' = "raised"
                       /\ exc' = "OSError"
                       /\ UNCHANGED <<dirs, output_path>>
    /\ UNCHANGED <<entry, ip, text, font_exists, cmap, cfs_exc, cfs_ret, is_supported,
                   unsupported_chars, warned, scene, hostLog, exported, file_ext, ret>>

-----------------------------------------------------------------------------
(* export_mesh *)

\* line 117
SupportedExts == {<<".", "obj">>, <<".", "blend">>}

\* the format check of line 117 left out
SupportedAny(ext) == TRUE

Supported(ext) == ext \in SupportedExts

\* names export_mesh can read: its parameters and locals, then the module's
ExportMeshNames == {"obj", "output_path", "file_ext"} \cup ModuleGlobals

\* lines 107-120
export_mesh ==
    /\ pc = "export_mesh"
    /\ IF output_path = None /\ "original_text" \notin ExportMeshNames
       THEN \* line 108 reads a name that is bound nowhere export_mesh can see
            /\ pc' = "raised"
            /\ exc' = "NameError"
            /\ UNCHANGED <<output_path, file_ext, ret>>
       ELSE LET given == IF output_path = None
                         THEN get_default_output_path(text) ELSE output_path
                ext   == lower(splitext(given)[2])
                fe    == IF ext = <<>> THEN <<".", "obj">> ELSE ext
                path  == IF ext = <<>> THEN given \o fe ELSE given
            IN  /\ output_path' = path
                /\ file_ext' = fe
                /\ IF ~Supported(fe)
                   THEN /\ ret' = "False"
                        /\ pc' = "done"
                   ELSE /\ ret' = ret
                        /\ pc' = "export_makedirs"
                /\ exc' = exc
    /\ UNCHANGED <<entry, ip, text, font_exists, cmap, cfs_exc, cfs_ret, is_supported,
                   unsupported_chars, warned, scene, hostLog, dirs, exported>>

\* line 123, outside the try block: os.makedirs('') raises FileNotFoundError,
\* any other directory is created or the call fails
export_makedirs ==
    /\ pc = "export_makedirs"
    /\ LET d == dirname(output_path)
       IN  \E ok \in (IF d = <<>> THEN {FALSE} ELSE BOOLEAN) :
              IF ok
              THEN /\ dirs' = dirs \cup {d}
                   /\ pc' = "export_select"
                   /\ exc' = exc
              ELSE /\ dirs' = dirs
                   /\ pc' = "raised"
                   /\ exc' = IF d = <<>> THEN "FileNotFoundError" ELSE "OSError"
    /\ UNCHANGED <<entry, ip, text, font_exists, cmap, cfs_exc, cfs_ret, is_supported,
                   unsupported_chars, warned, scene, hostLog, exported, output_path,
                   file_ext, ret>>

\* lines 126-128, outside the try block
export_select ==
    /\ RunBlock("export_select", SelectOps, "export_op")
    /\ UNCHANGED <<entry, text, font_exists, cmap, cfs_exc, cfs_ret, is_supported,
                   unsupported_chars, warned, dirs, exported, output_path, file_ext,
                   ret>>

\* lines 132-139: the operators the if/elif chain calls for an extension
Exporters(ext) ==
    IF ext = <<".", "obj">> THEN <<"wm.obj_export">>
    ELSE IF ext = <<".", "blend">> THEN <<"wm.save_as_mainfile">>
    ELSE <<>>

\* an except clause that swallows the failure and still reports success
ExportReturnAlwaysTrue(ok) == "True"

\* lines 141-148: True after the try body, False from the except clause
ExportReturn(ok) == IF ok THEN "True" ELSE "False"

\* lines 130-148
export_op ==
    /\ pc = "export_op"
    /\ \E ok \in (IF Exporters(file_ext) = <<>> THEN {TRUE} ELSE BOOLEAN) :
          /\ hostLog' = hostLog \o Exporters(file_ext)
          /\ exported' = IF ok
                         THEN exported \cup
                                 {<<Exporters(file_ext)[i], output_path>> :
                                      i \in 1..Len(Exporters(file_ext))}
                         ELSE exported
          /\ ret' = ExportReturn(ok)
    /\ pc' = "done"
    /\ UNCHANGED <<entry, ip, text, font_exists, cmap, cfs_exc, cfs_ret, is_supported,
                   unsupported_chars, warned, scene, dirs, output_path, file_ext, exc>>

-----------------------------------------------------------------------------
(* Specifications *)

\* state shared by every entry point before anything has run
Fresh ==
    /\ ip = 1
    /\ cmap = {}
    /\ cfs_exc = "none"
    /\ cfs_ret = <<TRUE, <<>> >>
    /\ is_supported = TRUE
    /\ unsupported_chars = <<>>
    /\ warned = FALSE
    /\ hostLog = <<>>
    /\ dirs = {}
    /\ exported = {}
    /\ file_ext = <<>>
    /\ ret = "none"
    /\ exc = "none"

\* the host's start-up scene: its own objects, any of them selected or active
StartScenes ==
    {[objects |-> {"Cube"}, selected |-> s, active |-> a, text |-> EmptyText] :
        s \in SUBSET {"Cube"}, a \in {"None", "Cube"}}

\* a run of main(): the script's __main__ block, lines 263-264
Init ==
    /\ entry = "main"
    /\ pc = "main"
    /\ text \in Texts
    /\ font_exists \in BOOLEAN
    /\ scene \in StartScenes
    /\ output_path = None
    /\ Fresh

Next ==
    \/ main_font_exists
    \/ cfs_load
    \/ cfs_scan
    \/ cfs_return
    \/ create_text_mesh
    \/ main_centre
    \/ main_output
    \/ export_mesh
    \/ export_makedirs
    \/ export_select
    \/ export_op

Spec == Init /\ [][Next]_vars

\* scenes export_mesh can be handed an object of: the mesh "Text" beside the
\* host's objects, any selection, any active object
MeshScenes ==
    {[objects |-> {"Cube", "Text"}, selected |-> s, active |-> a,
      text |-> [kind |-> "MESH", body |-> <<"a">>, props |-> {},
                origin_centred |-> c, location |-> "origin"]] :
        s \in SUBSET {"Cube", "Text"}, a \in {"None", "Text"}, c \in BOOLEAN}

\* output_path arguments of a direct call
PathArgs == {None} \cup SeqsUpTo(PathTokens, MaxPathLen)

\* a call export_mesh(obj, output_path) or export_mesh(obj), lines 98-148
InitExport ==
    /\ entry = "export_mesh"
    /\ pc = "export_mesh"
    /\ text = <<"a">>
    /\ font_exists = TRUE
    /\ scene \in MeshScenes
    /\ output_path \in PathArgs
    /\ Fresh

NextExport ==
    \/ export_mesh
    \/ export_makedirs
    \/ export_select
    \/ export_op

SpecExport == InitExport /\ [][NextExport]_vars

\* a call check_font_support(font_path, text), lines 176-214
InitFont ==
    /\ entry = "check_font_support"
    /\ pc = "cfs_load"
    /\ text \in Texts
    /\ font_exists \in BOOLEAN
    /\ scene = [objects |-> {"Cube"}, selected |-> {}, active |-> "None",
                text |-> EmptyText]
    /\ output_path = None
    /\ Fresh

NextFont ==
    \/ cfs_load
    \/ cfs_scan
    \/ cfs_return

SpecFont == InitFont /\ [][NextFont]_vars

-----------------------------------------------------------------------------
(* Properties *)

ExportOps == {"wm.obj_export", "wm.save_as_mainfile"}

ExportInvoked == \E i \in 1..Len(hostLog) : hostLog[i] \in ExportOps

\* the host operations claim C1 orders
IsPipelineOp(op) ==
    op \in {"object.text_add", "data.body", "data.font", "data.extrude",
            "data.bevel_depth", "data.bevel_resolution", "object.convert",
            "object.origin_set", "location"} \cup ExportOps

ConvertedAndCentred ==
    /\ scene.text.kind = "MESH"
    /\ scene.text.origin_centred
    /\ scene.text.location = "origin"

\* C1: in a run of main() that invokes an export operator, the text object is
\* created, its body, font, extrude, bevel depth and bevel resolution are set,
\* it is converted to a mesh, its origin is set and it is moved to (0,0,0), and
\* then the export operator is invoked: each of these once, in this order; the
\* export operator is only ever invoked on a converted and centred object.
C1_ExportAfterConvertAndCentre ==
    /\ pc = "export_op" => ConvertedAndCentred
    /\ ExportInvoked =>
          /\ ConvertedAndCentred
          /\ \E e \in ExportOps :
                SelectSeq(hostLog, IsPipelineOp) =
                    <<"object.text_add", "data.body", "data.font", "data.extrude",
                      "data.bevel_depth", "data.bevel_resolution", "object.convert",
                      "object.origin_set", "location", e>>

C1_Witness == pc = "done" /\ ret = "True" /\ ExportInvoked /\ exported # {}

\* the lower-cased extension of an output path
ExtOf(p) == lower(splitext(p)[2])

\* an output path whose extension is non-empty and neither .obj nor .blend
Rejected ==
    /\ output_path # None
    /\ ExtOf(output_path) \notin {<<>>, <<".", "obj">>, <<".", "blend">>}

C2_RejectedInv ==
    /\ Rejected =>
          /\ pc \in {"export_mesh", "done"}
          /\ pc = "done" => ret = "False" /\ exc = "none"
          /\ hostLog = <<>>
          /\ dirs = {}
          /\ exported = {}
    /\ (output_path # None /\ ExtOf(output_path) = <<".", "obj">>) =>
          /\ \A i \in 1..Len(hostLog) : hostLog[i] # "wm.save_as_mainfile"
          /\ pc = "done" => SelectSeq(hostLog, IsPipelineOp) = <<"wm.obj_export">>
    /\ (output_path # None /\ ExtOf(output_path) = <<".", "blend">>) =>
          /\ \A i \in 1..Len(hostLog) : hostLog[i] # "wm.obj_export"
          /\ pc = "done" => SelectSeq(hostLog, IsPipelineOp) = <<"wm.save_as_mainfile">>

\* C2: for an output path whose lower-cased extension is non-empty and neither
\* .obj nor .blend, export_mesh returns False, invokes no host operator (so no
\* export operator), creates no directory and leaves the scene's selection and
\* active object as they were; for .obj it invokes the OBJ exporter only and
\* for .blend the save-as-mainfile operator only.
C2_OnlyObjOrBlend ==
    /\ []C2_RejectedInv
    /\ [][Rejected => scene' = scene]_vars

C2_Witness ==
    /\ entry = "export_mesh"
    /\ pc = "done"
    /\ Rejected
    /\ ret = "False"
    /\ scene.selected = {"Cube"}
    /\ ExtOf(output_path) = <<".", "txt">>

\* characters of the text the claim C3 lists: not whitespace, not in the cmap
MissingFromCmap(c) == ~isspace(c) /\ c \notin cmap

\* C3: check_font_support returns (fully_supported, unsupported_chars) where
\* unsupported_chars is exactly the non-whitespace characters of the text that
\* the font's character map lacks, in text order with repeats, and
\* fully_supported is true exactly when that list is empty.
C3_FontSupportExact ==
    (pc = "cfs_return" /\ cfs_exc # "TTLibError") =>
        /\ cfs_ret[2] = SelectSeq(text, MissingFromCmap)
        /\ cfs_ret[1] <=> (cfs_ret[2] = <<>>)

\* C4: export_mesh called with output_path None goes on with the default
\* output path; the missing path makes it neither fail nor raise.
C4_NoneUsesDefaultPath ==
    /\ output_path = None => pc = "export_mesh"
    /\ exc # "NameError"

\* C5: for a supported extension export_mesh returns True exactly when the
\* export operator it invoked completed without raising; when the operator
\* raises, export_mesh returns False and no exception leaves it.
C5_ReturnReportsExport ==
    Supported(file_ext) =>
        /\ ret = "True" <=> exported # {}
        /\ (ExportInvoked /\ exported = {}) =>
              ret = "False" /\ exc = "none" /\ pc = "done"
        /\ ret = "True" => ExportInvoked

C5_Witness ==
    /\ entry = "export_mesh"
    /\ Supported(file_ext)
    /\ ExportInvoked
    /\ exported = {}
    /\ ret = "False"
    /\ pc = "done"

\* C6: with the font file missing, main() returns without any host call: no
\* scene object is deleted, no text object is created, no font is loaded, no
\* directory is created and nothing is exported.
C6_MissingFontNoHostCall ==
    ~font_exists =>
        /\ pc \in {"main", "done"}
        /\ exc = "none"
        /\ hostLog = <<>>
        /\ scene \in StartScenes
        /\ dirs = {}
        /\ exported = {}
        /\ ret = "none"

C6_Witness == entry = "main" /\ ~font_exists /\ pc = "done"

PipelinePrefix == CreateOps \o CentreOps

\* C7: when the font file exists, main() creates the mesh, centres it and
\* calls export_mesh whether check_font_support returned True or False: a run
\* that ends without a host failure has made the host calls of
\* create_text_mesh and of the centring, and export_mesh has returned.
C7_FontCheckOnlyWarns ==
    (font_exists /\ pc = "done") =>
        /\ ret # "none"
        /\ Len(hostLog) >= Len(PipelinePrefix)
        /\ SubSeq(hostLog, 1, Len(PipelinePrefix)) = PipelinePrefix
        /\ warned <=> ~is_supported

C7_Witness ==
    /\ entry = "main"
    /\ pc = "done"
    /\ ~is_supported
    /\ unsupported_chars # <<>>
    /\ ret = "True"
    /\ exported # {}

=============================================================================
